---- MODULE Spec2Model ----
(***************************************************************************)
(* Model of packages/pyodide-runtime-agent/src/ipython-setup.py:           *)
(* the serializers of RichDisplayPublisher and RichDisplayHook, the result *)
(* hook, the display publisher, the matplotlib show adapter,               *)
(* format_exception, and the interrupt-aware sleep and input with          *)
(* check_interrupt and the SIGINT handler.                                 *)
(***************************************************************************)
EXTENDS Integers, Sequences, FiniteSets, TLC

\* ------------------------------------------------------------------ bounds

\* Largest number of entries of an enumerated mapping.
MaxLen == 2

\* ----------------------------------------------------------- Python values
\* Every Python value is a record [k, a, xs]: k its kind, a its atom (the
\* digits of an int, the text of a str, the name of an object), xs its
\* children.  A mapping's children are "pair" values <<key, value>>, in
\* insertion order.

None == [k |-> "none", a |-> "", xs |-> <<>>]

IntV(s) == [k |-> "int", a |-> s, xs |-> <<>>]

StrV(s) == [k |-> "str", a |-> s, xs |-> <<>>]

BoolV(b) == [k |-> "bool", a |-> (IF b THEN "True" ELSE "False"), xs |-> <<>>]

\* An object no JSON encoder knows (json.dumps raises TypeError on it).
Obj(s) == [k |-> "obj", a |-> s, xs |-> <<>>]

\* A reference from inside a container back to an enclosing container: the
\* container holds a cycle (json.dumps raises ValueError on it).
Ref == [k |-> "ref", a |-> "", xs |-> <<>>]

List(items) == [k |-> "list", a |-> "", xs |-> items]

Pair(key, val) == [k |-> "pair", a |-> "", xs |-> <<key, val>>]

Dict(entries) == [k |-> "dict", a |-> "", xs |-> entries]

\* An object exposing to_dict(), whose call returns r.
ToDictObj(s, r) == [k |-> "todict", a |-> s, xs |-> <<r>>]

EmptyDict == Dict(<<>>)

IsDict(v) == v.k = "dict"

KeyOf(p) == p.xs[1]

ValOf(p) == p.xs[2]

DictKeys(d) == {KeyOf(d.xs[i]) : i \in 1..Len(d.xs)}

\* d[key], for a key of d.
DictGet(d, key) == ValOf(d.xs[CHOOSE i \in 1..Len(d.xs) : KeyOf(d.xs[i]) = key])

\* Python's d[key] = val: an existing key keeps its place and takes the new
\* value, a new key is appended.
DictPut(d, key, val) ==
    IF key \in DictKeys(d)
    THEN Dict([i \in 1..Len(d.xs) |->
                 IF KeyOf(d.xs[i]) = key THEN Pair(key, val) ELSE d.xs[i]])
    ELSE Dict(Append(d.xs, Pair(key, val)))

\* Python truthiness, as used by `x or {}` and `if data`.
Truthy(v) ==
    CASE v.k = "none" -> FALSE
      [] v.k \in {"dict", "list"} -> Len(v.xs) > 0
      [] v.k = "str" -> v.a # ""
      [] v.k = "int" -> v.a # "0"
      [] v.k = "bool" -> v.a = "True"
      [] OTHER -> TRUE

\* str(v): a str is itself, an int its digits, None the text None; any other
\* value its printed representation, a str that is never the value itself.
Str(v) ==
    CASE v.k = "str" -> v
      [] v.k = "int" -> StrV(v.a)
      [] v.k = "bool" -> StrV(v.a)
      [] v.k = "none" -> StrV("None")
      [] OTHER -> [k |-> "str", a |-> "repr", xs |-> <<v>>]

\* Whether json.dumps(v) succeeds: scalars do; a list or mapping does when
\* its items do and every mapping key is a str, int, bool or None; an
\* object (TypeError) and a cycle (ValueError) do not.
RECURSIVE JsonOk(_)
JsonOk(v) ==
    CASE v.k \in {"none", "int", "str", "bool"} -> TRUE
      [] v.k = "list" -> \A i \in 1..Len(v.xs) : JsonOk(v.xs[i])
      [] v.k = "dict" ->
           \A i \in 1..Len(v.xs) :
              /\ KeyOf(v.xs[i]).k \in {"none", "int", "str", "bool"}
              /\ JsonOk(ValOf(v.xs[i]))
      [] OTHER -> FALSE

\* ------------------------------------------------------------- serializers

\* hasattr(obj, "to_dict")
HasToDict(obj) == obj.k = "todict"

\* obj.to_dict()
CallToDict(obj) == obj.xs[1]

\* EntryValue with every value replaced by its string representation.
EntryValueAlwaysStr(value) == Str(value)

\* The value stored for one mapping entry (lines 103-114, 172-183): the value
\* itself when json.dumps(value) succeeds, else str(value).
EntryValue(value) == IF JsonOk(value) THEN value ELSE Str(value)

\* The loop over obj.items() (lines 101-115, 170-184): result[str(key)] is
\* assigned entry by entry, in the mapping's order.
RECURSIVE DictLoop(_, _, _)
DictLoop(obj, i, result) ==
    IF i > Len(obj.xs)
    THEN result
    ELSE DictLoop(obj, i + 1,
                  DictPut(result, Str(KeyOf(obj.xs[i])), EntryValue(ValOf(obj.xs[i]))))

SerializeDict(obj) == DictLoop(obj, 1, EmptyDict)

\* The keys whose values the loop reports with [SERIALIZATION_WARNING].
SerializationWarnings(obj) ==
    IF IsDict(obj)
    THEN SelectSeq([i \in 1..Len(obj.xs) |-> KeyOf(obj.xs[i])],
                   LAMBDA key : ~JsonOk(DictGet(obj, key)))
    ELSE <<>>

\* The branch taken for the result of to_dict() (line 98): it is returned
\* as it is.
ToDictBranch(obj) == CallToDict(obj)

\* RichDisplayPublisher._make_serializable (lines 92-122).
PubMakeSerializable(obj) ==
    IF obj = None THEN EmptyDict
    ELSE IF HasToDict(obj) THEN ToDictBranch(obj)
    ELSE IF IsDict(obj) THEN SerializeDict(obj)
    ELSE IF JsonOk(obj) THEN obj
    ELSE Str(obj)

\* RichDisplayHook._make_serializable (lines 164-191): no to_dict branch.
HookMakeSerializable(obj) ==
    IF obj = None THEN EmptyDict
    ELSE IF IsDict(obj) THEN SerializeDict(obj)
    ELSE IF JsonOk(obj) THEN obj
    ELSE Str(obj)

\* --------------------------------------------------------- enumerated input

SeqsUpTo(S, n) == UNION {[1..m -> S] : m \in 0..n}

\* The mappings of at most n entries with keys of K (each key once, as in a
\* Python dict) and values of V.
DictsOver(K, V, n) ==
    {Dict(es) : es \in {s \in SeqsUpTo({Pair(key, val) : key \in K, val \in V}, n) :
                          \A i, j \in 1..Len(s) : i # j => KeyOf(s[i]) # KeyOf(s[j])}}

Atoms == {None, IntV("1"), StrV("1"), StrV("a"), Obj("o")}

Keys == {IntV("1"), StrV("1"), StrV("a"), Obj("k")}

\* Containers one level deep: encodable, unencodable, cyclic, with a key no
\* JSON encoder takes, and an object with to_dict.
Inner ==
    { List(<<IntV("1")>>), List(<<Obj("o")>>), List(<<Ref>>),
      Dict(<<Pair(IntV("1"), StrV("a"))>>), Dict(<<Pair(Obj("k"), StrV("a"))>>),
      Dict(<<Pair(StrV("a"), Ref)>>),
      ToDictObj("t", Dict(<<Pair(StrV("a"), IntV("1"))>>)) }

ToDictObjs ==
    {ToDictObj("t", r) : r \in { Dict(<<Pair(StrV("a"), IntV("1"))>>),
                                 Dict(<<Pair(StrV("a"), Obj("o"))>>),
                                 Dict(<<Pair(IntV("1"), StrV("a"))>>),
                                 Dict(<<Pair(Obj("k"), IntV("1"))>>),
                                 List(<<Obj("o")>>),
                                 Obj("o"), None }}

Mappings == DictsOver(Keys, Atoms \cup {Ref}, MaxLen) \cup DictsOver(Keys, Inner, 1)

Values == Atoms \cup Inner \cup ToDictObjs \cup Mappings

\* -------------------------------------------------------------------- state

VARIABLES
    hook_js_callback,   \* RichDisplayHook.js_callback: "none" or "sink"
    pub_js_callback,    \* RichDisplayPublisher.js_callback: "none" or "sink"
    js_clear_callback,  \* the publisher's js_clear_callback: "unset", "none", "sink"
    execution_count,    \* RichDisplayHook.execution_count
    op,                 \* the operation in flight, or last ended
    pc,                 \* its position: "idle", a step of the operation, "done"
    args,               \* its arguments
    fmt,                \* what compute_format_data returned to the hook
    calls,              \* the sink invocations made during the operation
    stdout,             \* the lines it printed (standard output and error)
    outcome,            \* how it ended: returned a value or raised
    count0,             \* execution_count when the operation was called
    present_calls,      \* how many times the hook was called with a present result
    events,             \* what the operation did to its surroundings, in order
    now,                \* the clock, in ms since the wrapped sleep was called
    remaining,          \* interrupt_aware_sleep's remaining, in ms
    remaining_float,    \* the same, as the float it is
    residue,            \* remaining_float is positive with no whole ms left
    intr,               \* the interrupt of the run: how and when it arrives
    polls,              \* the times at which the sleep called check_interrupt
    chunks              \* the sleep_time of every increment the sleep waited

bridgeVars == <<hook_js_callback, pub_js_callback, js_clear_callback, execution_count, fmt, count0,
               present_calls>>

frameVars == <<op, pc, args, calls, stdout, outcome, events>>

sleepVars == <<now, remaining, remaining_float, residue, intr, polls, chunks>>

vars == <<hook_js_callback, pub_js_callback, js_clear_callback, execution_count, fmt,
          count0, present_calls, op, pc, args, calls, stdout, outcome, events, now,
          remaining, remaining_float, residue, intr, polls, chunks>>

NoOutcome == [kind |-> "none", val |-> None, exc |-> ""]

Return(v) == [kind |-> "return", val |-> v, exc |-> ""]

Raise(e) == [kind |-> "raise", val |-> None, exc |-> e]

NoFormat == [raised |-> FALSE, format_dict |-> EmptyDict, md_dict |-> None]

NoInterrupt == [kind |-> "none", at |-> 0]

Line(stream, text) == [stream |-> stream, text |-> text]

\* One entry of events: a call out of the module (a sink, the underlying
\* input, a matplotlib or IPython function) and how it ended.
Ev(name, arg) == [ev |-> name, arg |-> arg]

\* The state after the module has run: __init__ of the hook (lines 128-131)
\* and of the publisher (lines 59-61, which set no js_clear_callback).
Init ==
    /\ hook_js_callback = "none"
    /\ pub_js_callback = "none"
    /\ js_clear_callback = "unset"
    /\ execution_count = 0
    /\ op = "none"
    /\ pc = "idle"
    /\ args = <<>>
    /\ fmt = NoFormat
    /\ calls = <<>>
    /\ stdout = <<>>
    /\ outcome = NoOutcome
    /\ count0 = 0
    /\ present_calls = 0
    /\ events = <<>>
    /\ now = 0
    /\ remaining = 0
    /\ remaining_float = <<0, 0, 0, 0>>
    /\ residue = FALSE
    /\ intr = NoInterrupt
    /\ polls = <<>>
    /\ chunks = <<>>

\* No operation is in flight: a new one may be called.
Ready == pc = "idle"

\* The frame of a newly called operation.
Enter(o, a, p) ==
    /\ Ready
    /\ op' = o
    /\ args' = a
    /\ pc' = p
    /\ calls' = <<>>
    /\ stdout' = <<>>
    /\ outcome' = NoOutcome
    /\ events' = <<>>

\* The frame of an operation that runs in one step and ends with outcome r,
\* having printed the lines out.
RunWhole(o, a, out, r) ==
    /\ Ready
    /\ op' = o
    /\ args' = a
    /\ pc' = "done"
    /\ calls' = <<>>
    /\ stdout' = out
    /\ outcome' = r
    /\ events' = <<>>

\* ------------------------------------------------- the serializers, called

WarningLines(obj) ==
    [i \in 1..Len(SerializationWarnings(obj)) |->
        Line("stdout", "[SERIALIZATION_WARNING] " \o Str(SerializationWarnings(obj)[i]).a)]

\* RichDisplayPublisher._make_serializable(obj)
CallPubMakeSerializable ==
    /\ Ready
    /\ \E obj \in Values :
           /\ RunWhole("pub_serialize", [obj |-> obj],
                       IF HasToDict(obj) THEN <<>> ELSE WarningLines(obj),
                       Return(PubMakeSerializable(obj)))
           /\ UNCHANGED <<bridgeVars, sleepVars>>

\* RichDisplayHook._make_serializable(obj)
CallHookMakeSerializable ==
    /\ Ready
    /\ \E obj \in Values :
           /\ RunWhole("hook_serialize", [obj |-> obj], WarningLines(obj),
                       Return(HookMakeSerializable(obj)))
           /\ UNCHANGED <<bridgeVars, sleepVars>>

\* --------------------------------------------------------- format_exception

\* An exception class, an exception instance and a traceback object.
Class(s) == [k |-> "class", a |-> s, xs |-> <<>>]

ExcV(s) == [k |-> "exc", a |-> s, xs |-> <<>>]

Traceback == [k |-> "tb", a |-> "", xs |-> <<>>]

ExcTypes == {None, Class("ValueError"), ExcV("x")}

ExcValues == {None, ExcV("x"), StrV("msg")}

ExcTracebacks == {None, Traceback, StrV("junk")}

\* traceback.format_exception (line 275) raises on a value that is no
\* exception (it reads the value's __cause__ and __suppress_context__) and on
\* a traceback that is no traceback object (it reads tb_frame).
TracebackFormatRaises(exc_type, exc_value, exc_traceback) ==
    \/ exc_value.k \notin {"none", "exc"}
    \/ exc_traceback.k \notin {"none", "tb"}

\* The text of the primary path: the joined lines, never empty (with no
\* exception the lines are "NoneType: None").
TracebackText(exc_type, exc_value, exc_traceback) ==
    [k |-> "str", a |-> "traceback", xs |-> <<exc_value, exc_traceback>>]

\* exc_type.__name__ (line 282) exists for a class only.
HasName(exc_type) == exc_type.k = "class"

\* f"{exc_type.__name__}: {exc_value}" (line 282)
FallbackText(exc_type, exc_value) == StrV(exc_type.a \o ": " \o Str(exc_value).a)

FormatExceptionCall ==
    /\ Ready
    /\ \E t \in ExcTypes, v \in ExcValues, tb \in ExcTracebacks :
           /\ Enter("format_exception", [exc_type |-> t, exc_value |-> v, exc_traceback |-> tb],
                    "primary")
           /\ UNCHANGED <<bridgeVars, sleepVars>>

\* Lines 271-275: the traceback module's rendering, returned when it succeeds.
FormatExceptionPrimary ==
    /\ op = "format_exception" /\ pc = "primary"
    /\ \/ /\ ~TracebackFormatRaises(args.exc_type, args.exc_value, args.exc_traceback)
          /\ outcome' = Return(TracebackText(args.exc_type, args.exc_value, args.exc_traceback))
          /\ pc' = "done"
          /\ UNCHANGED stdout
       \/ /\ TracebackFormatRaises(args.exc_type, args.exc_value, args.exc_traceback)
          /\ stdout' = Append(stdout, Line("stdout", "[FORMATTER_ERROR]"))
          /\ pc' = "fallback"
          /\ UNCHANGED outcome
    /\ UNCHANGED <<op, args, calls, events, bridgeVars, sleepVars>>

\* Lines 276-282: the handler's own return; reading __name__ of an exc_type
\* that has none raises AttributeError out of the handler.
FormatExceptionFallback ==
    /\ op = "format_exception" /\ pc = "fallback"
    /\ outcome' = IF HasName(args.exc_type)
                  THEN Return(FallbackText(args.exc_type, args.exc_value))
                  ELSE Raise("AttributeError")
    /\ pc' = "done"
    /\ UNCHANGED <<op, args, calls, stdout, events, bridgeVars, sleepVars>>


\* --------------------------------------------------------- the result hook

\* Upper bound of execution_count in the explored runs.
MaxCount == 3

TextPlain == StrV("text/plain")

TextHtml == StrV("text/html")

\* The values the host hands to the hook: no result, an int, an object.
HookResults == {None, IntV("1"), Obj("o")}

\* What compute_format_data (IPython, line 140) may return as format_dict:
\* nothing, plain text, and plain text with a representation that is an
\* object json.dumps rejects.
FormatDicts ==
    { EmptyDict,
      Dict(<<Pair(TextPlain, StrV("1"))>>),
      Dict(<<Pair(TextPlain, StrV("1")), Pair(TextHtml, Obj("o"))>>) }

MdDicts == {EmptyDict, Dict(<<Pair(TextHtml, Dict(<<Pair(StrV("isolated"), BoolV(TRUE))>>))>>)}

\* One invocation of a sink, with its positional arguments.
SinkCall(sink, a) == [sink |-> sink, args |-> a]

\* How an invoked sink may end: it returns, or it raises an Exception.
SinkEnds == {"returns", "raises"}

\* The invocation of a host sink ended in the way end.
SinkEnded(end) == events' = Append(events, Ev("sink_" \o end, None))

\* CaughtByHook with a bare `except:`, which catches everything.
CaughtByHookAll(e) == TRUE

\* CaughtByHook with a handler that catches the sink's errors only.
CaughtByHookSinkOnly(e) == e = "SinkError"

\* `except Exception` (line 151): the errors the hook's handler catches.
\* KeyboardInterrupt is a BaseException and no Exception.
CaughtByHook(e) == e \in {"FormatError", "SinkError"}

\* Where an error raised inside the try of lines 139-149 leads.
AfterRaiseInTry(e) == IF CaughtByHook(e) THEN "except" ELSE "done"

\* IsPresent with the test of line 135 left out.
IsPresentAlways(result) == TRUE

\* `result is not None` (line 135)
IsPresent(result) == result # None

\* HookEmits without the test of the sink.
HookEmitsUnguarded(js_callback, format_dict) == Truthy(format_dict)

\* `self.js_callback and format_dict` (line 143)
HookEmits(js_callback, format_dict) == js_callback = "sink" /\ Truthy(format_dict)

\* The arguments of the call of lines 144-149.
HookArgs(count, format_dict, md_dict) ==
    <<count, HookMakeSerializable(format_dict),
      HookMakeSerializable(IF Truthy(md_dict) THEN md_dict ELSE EmptyDict)>>

\* The arguments of the fallback call of lines 159-160.
FallbackArgs(count, result) == <<count, Dict(<<Pair(TextPlain, Str(result))>>), EmptyDict>>

\* Incremented without the increment.
IncrementedNot(count) == count

\* `self.execution_count += 1` (line 136)
Incremented(count) == count + 1

\* Lines 133-136 and 162: an absent result is returned at once; a present
\* one increments execution_count first.
HookCall ==
    /\ Ready
    /\ \E result \in HookResults :
           IF IsPresent(result)
           THEN /\ execution_count < MaxCount /\ present_calls < MaxCount
                /\ Enter("hook", [result |-> result], "format")
                /\ execution_count' = Incremented(execution_count)
                /\ present_calls' = present_calls + 1
                /\ count0' = execution_count
                /\ fmt' = NoFormat
                /\ UNCHANGED <<hook_js_callback, pub_js_callback, js_clear_callback, sleepVars>>
           ELSE /\ RunWhole("hook", [result |-> result], <<>>, Return(result))
                /\ count0' = execution_count
                /\ fmt' = NoFormat
                /\ UNCHANGED <<hook_js_callback, pub_js_callback, js_clear_callback,
                               execution_count, present_calls, sleepVars>>

\* The hook is called and SIGINT is delivered as the call starts, before
\* line 136 is reached: signal_handler (lines 336-342) prints its line and
\* raises KeyboardInterrupt outside the try of line 139.
HookCallInterrupted ==
    /\ Ready
    /\ \E result \in HookResults :
           /\ result # None => present_calls < MaxCount
           /\ RunWhole("hook", [result |-> result],
                       <<Line("stdout", "[INTERRUPT] Signal")>>, Raise("KeyboardInterrupt"))
           /\ present_calls' = IF result # None THEN present_calls + 1 ELSE present_calls
           /\ count0' = execution_count
           /\ fmt' = NoFormat
           /\ UNCHANGED <<hook_js_callback, pub_js_callback, js_clear_callback,
                          execution_count, sleepVars>>

\* Line 140: compute_format_data returns the two mappings, or raises.
HookFormat ==
    /\ op = "hook" /\ pc = "format"
    /\ \/ \E f \in FormatDicts, m \in MdDicts :
             /\ fmt' = [raised |-> FALSE, format_dict |-> f, md_dict |-> m]
             /\ pc' = "emit"
             /\ UNCHANGED outcome
       \/ /\ fmt' = [raised |-> TRUE, format_dict |-> EmptyDict, md_dict |-> None]
          /\ pc' = AfterRaiseInTry("FormatError")
          /\ outcome' = IF CaughtByHook("FormatError") THEN outcome ELSE Raise("FormatError")
    /\ UNCHANGED <<op, args, calls, stdout, events, sleepVars, count0, present_calls,
                   hook_js_callback, pub_js_callback, js_clear_callback, execution_count>>

\* Lines 143-149, inside the try: with a sink and a non-empty format_dict
\* both mappings are serialized and the sink is invoked; an Exception the
\* sink raises is caught by the handler of line 151.
HookEmit ==
    /\ op = "hook" /\ pc = "emit"
    /\ IF HookEmits(hook_js_callback, fmt.format_dict)
       THEN /\ calls' = Append(calls, SinkCall("result",
                           HookArgs(execution_count, fmt.format_dict, fmt.md_dict)))
            /\ stdout' = stdout \o WarningLines(fmt.format_dict) \o WarningLines(fmt.md_dict)
            /\ \E end \in SinkEnds :
                  /\ SinkEnded(end)
                  /\ IF end = "returns"
                     THEN pc' = "return" /\ UNCHANGED outcome
                     ELSE /\ pc' = AfterRaiseInTry("SinkError")
                          /\ outcome' = IF CaughtByHook("SinkError")
                                        THEN outcome ELSE Raise("SinkError")
       ELSE /\ pc' = "return"
            /\ UNCHANGED <<calls, stdout, outcome, events>>
    /\ UNCHANGED <<op, args, bridgeVars, sleepVars>>

\* Lines 151-160: the handler reports the error and, with a sink, invokes it
\* with the plain-text fallback; an Exception raised by that invocation
\* leaves the hook.
HookExcept ==
    /\ op = "hook" /\ pc = "except"
    /\ stdout' = Append(stdout, Line("stderr", "[DISPLAY_HOOK_ERROR]"))
    /\ IF hook_js_callback = "sink"
       THEN /\ calls' = Append(calls, SinkCall("result",
                                               FallbackArgs(execution_count, args.result)))
            /\ \E end \in SinkEnds :
                  /\ SinkEnded(end)
                  /\ IF end = "returns"
                     THEN pc' = "return" /\ UNCHANGED outcome
                     ELSE pc' = "done" /\ outcome' = Raise("SinkError")
       ELSE /\ pc' = "return"
            /\ UNCHANGED <<calls, outcome, events>>
    /\ UNCHANGED <<op, args, bridgeVars, sleepVars>>

\* Line 162
HookReturn ==
    /\ op = "hook" /\ pc = "return"
    /\ pc' = "done"
    /\ outcome' = Return(args.result)
    /\ UNCHANGED <<op, args, calls, stdout, events, bridgeVars, sleepVars>>

\* ---------------------------------------------------- the display publisher

\* The data handed to publish: absent, empty, MIME mappings (encodable, with
\* an unencodable value, with an int key), an object with to_dict, a str.
PubData ==
    { None, EmptyDict,
      Dict(<<Pair(TextPlain, StrV("1"))>>),
      Dict(<<Pair(TextPlain, StrV("1")), Pair(TextHtml, Obj("o"))>>),
      Dict(<<Pair(IntV("1"), StrV("a"))>>),
      ToDictObj("t", Dict(<<Pair(TextPlain, StrV("1"))>>)),
      StrV("a") }

\* The metadata and the transient handed to publish.
PubMeta ==
    { None, EmptyDict,
      Dict(<<Pair(StrV("display_id"), StrV("a"))>>),
      Dict(<<Pair(StrV("display_id"), Obj("o"))>>) }

\* `self.js_callback and data` (line 74)
PublishEmits(js_callback, data) == js_callback = "sink" /\ Truthy(data)

\* `x or {}` (lines 77-78)
OrEmpty(x) == IF Truthy(x) THEN x ELSE EmptyDict

\* PublishArgs with metadata and transient in each other's place.
PublishArgsSwapped(data, metadata, transient, update) ==
    <<PubMakeSerializable(data), PubMakeSerializable(OrEmpty(transient)),
      PubMakeSerializable(OrEmpty(metadata)), update>>

\* The arguments of the call of lines 76-82.
PublishArgs(data, metadata, transient, update) ==
    <<PubMakeSerializable(data), PubMakeSerializable(OrEmpty(metadata)),
      PubMakeSerializable(OrEmpty(transient)), update>>

PublishWarnings(data, metadata, transient) ==
    (IF HasToDict(data) THEN <<>> ELSE WarningLines(data))
        \o WarningLines(OrEmpty(metadata)) \o WarningLines(OrEmpty(transient))

\* publish(data, metadata, transient=..., update=...) is called (line 63).
PublishCall ==
    /\ Ready
    /\ \E data \in PubData, metadata \in PubMeta, transient \in PubMeta, update \in BOOLEAN :
           /\ Enter("publish", [data |-> data, metadata |-> metadata,
                                transient |-> transient, update |-> BoolV(update)], "body")
           /\ count0' = execution_count
           /\ UNCHANGED <<hook_js_callback, pub_js_callback, js_clear_callback,
                          execution_count, present_calls, fmt, sleepVars>>

\* Lines 74-82: with a sink and non-empty data the three values are
\* serialized and the sink is invoked; nothing catches what the sink raises.
PublishBody ==
    /\ op = "publish" /\ pc = "body"
    /\ pc' = "done"
    /\ IF PublishEmits(pub_js_callback, args.data)
       THEN /\ calls' = Append(calls, SinkCall("display",
                 PublishArgs(args.data, args.metadata, args.transient, args.update)))
            /\ stdout' = stdout \o PublishWarnings(args.data, args.metadata, args.transient)
            /\ \E end \in SinkEnds :
                  /\ SinkEnded(end)
                  /\ outcome' = IF end = "returns" THEN Return(None) ELSE Raise("SinkError")
       ELSE /\ outcome' = Return(None)
            /\ UNCHANGED <<calls, stdout, events>>
    /\ UNCHANGED <<op, args, bridgeVars, sleepVars>>

\* `hasattr(self, "js_clear_callback") and self.js_clear_callback` (line 86)
HasClearSink(cb) == cb = "sink"

\* ClearSentinel without the value of wait.
ClearSentinelNoFlag(wait) == "__CLEAR_OUTPUT__:"

\* f"__CLEAR_OUTPUT__:{wait}" (line 90)
ClearSentinel(wait) == "__CLEAR_OUTPUT__:" \o Str(wait).a

\* clear_output(wait) is called (line 84).
ClearOutputCall ==
    /\ Ready
    /\ \E wait \in BOOLEAN :
           /\ Enter("clear_output", [wait |-> BoolV(wait)], "body")
           /\ count0' = execution_count
           /\ UNCHANGED <<hook_js_callback, pub_js_callback, js_clear_callback,
                          execution_count, present_calls, fmt, sleepVars>>

\* Lines 86-90: the clear sink is invoked with wait, or, without one, the
\* sentinel line is printed on standard output.
ClearOutputBody ==
    /\ op = "clear_output" /\ pc = "body"
    /\ pc' = "done"
    /\ IF HasClearSink(js_clear_callback)
       THEN /\ calls' = Append(calls, SinkCall("clear", <<args.wait>>))
            /\ \E end \in SinkEnds :
                  /\ SinkEnded(end)
                  /\ outcome' = IF end = "returns" THEN Return(None) ELSE Raise("SinkError")
            /\ UNCHANGED stdout
       ELSE /\ stdout' = Append(stdout, Line("stdout", ClearSentinel(args.wait)))
            /\ outcome' = Return(None)
            /\ UNCHANGED <<calls, events>>
    /\ UNCHANGED <<op, args, bridgeVars, sleepVars>>

\* ------------------------------------------------------ the host's two moves

\* The host assigns one of the three sink slots (lines 61, 86, 130 name
\* them), between two operations.
SetHookCallback ==
    /\ Ready
    /\ \E cb \in {"none", "sink"} : cb # hook_js_callback /\ hook_js_callback' = cb
    /\ UNCHANGED <<pub_js_callback, js_clear_callback, execution_count, fmt, count0,
                   present_calls, frameVars, sleepVars>>

SetPubCallback ==
    /\ Ready
    /\ \E cb \in {"none", "sink"} : cb # pub_js_callback /\ pub_js_callback' = cb
    /\ UNCHANGED <<hook_js_callback, js_clear_callback, execution_count, fmt, count0,
                   present_calls, frameVars, sleepVars>>

SetClearCallback ==
    /\ Ready
    /\ \E cb \in {"none", "sink"} : cb # js_clear_callback /\ js_clear_callback' = cb
    /\ UNCHANGED <<hook_js_callback, pub_js_callback, execution_count, fmt, count0,
                   present_calls, frameVars, sleepVars>>

\* ------------------------------------------------- the interrupt-aware sleep
\* Time is counted in whole milliseconds; duration is the requested float,
\* in ms.

\* chunk_size = 0.05 (line 376), in ms.
ChunkMs == 50

\* Longest requested duration, in ms, of the enumerated calls.
MaxSleepMs == 160

\* The duration of the specification's example, in ms.
ExampleMs == 500

SleepDurations == (-1..MaxSleepMs) \cup {ExampleMs}

Min(a, b) == IF a <= b THEN a ELSE b

\* What may interrupt a sleep of d ms: nothing; the interrupt check
\* (pyodide_check_interrupt) raising from time t on, from 0 on when the
\* interrupt is pending as the sleep is called; SIGINT delivered at t.
Interrupts(d) ==
    {NoInterrupt, [kind |-> "check", at |-> 0]}
        \cup {[kind |-> kd, at |-> t] : kd \in {"check", "signal"}, t \in 0..(d - 1)}

\* ---- the floats of the sleep
\* duration, chunk_size and remaining are binary64 floats, in seconds.  The
\* ones that occur (below 1 s, multiples of 2^-64 s) are written as four
\* digits to the base 2^16 after the point, the first weighing 2^-16.

Base == 65536

Digits == 4

\* A float has 53 significant binary digits.
Significand == 53

FZero == <<0, 0, 0, 0>>

FPositive(x) == x # FZero

\* x < y
FLess(x, y) == \E i \in 1..Digits : x[i] < y[i] /\ \A j \in 1..(i - 1) : x[j] = y[j]

\* min(a, b) of Python: b when b < a, else a.
FMin(a, b) == IF FLess(b, a) THEN b ELSE a

\* The digits of the number x stands for when its entries have left
\* 0..Base-1 by a carry or a borrow.
Normalized(x) ==
    LET n4 == x[4]
        n3 == x[3] + (n4 \div Base)
        n2 == x[2] + (n3 \div Base)
        n1 == x[1] + (n2 \div Base)
    IN  <<n1, n2 % Base, n3 % Base, n4 % Base>>

\* The number of binary digits of v.
BitLength(v) == IF v = 0 THEN 0 ELSE CHOOSE n \in 1..16 : 2 ^ (n - 1) <= v /\ v < 2 ^ n

\* How many of the 64 binary digits a float of the size of x has not: all
\* after the Significand-th from its leading one.
DroppedBits(x) ==
    LET lead == 16 - BitLength(x[1]) + 1
        last == lead + Significand - 1
    IN  IF x[1] = 0 \/ last >= 64 THEN 0 ELSE 64 - last

\* The float nearest to the number x (with more digits, not all zero, after
\* its four when sticky): to nearest, ties to even.
RoundToFloat(x, sticky) ==
    LET unit == 2 ^ DroppedBits(x)
        low == x[4] % unit
        odd == (x[4] \div unit) % 2 = 1
        up == \/ 2 * low > unit
              \/ 2 * low = unit /\ (sticky \/ odd)
    IN  Normalized(<<x[1], x[2], x[3], x[4] - low + (IF up THEN unit ELSE 0)>>)

\* The float x - y (line 392), for x >= y: the exact difference, rounded.
FSub(x, y) == RoundToFloat(Normalized([i \in 1..Digits |-> x[i] - y[i]]), FALSE)

\* The float a duration of ms whole milliseconds is written as (0.5 for
\* 500): the float nearest to ms / 1000, for 0 < ms < 1000.
FromMs(ms) ==
    LET r1 == (ms * Base) % 1000
        r2 == (r1 * Base) % 1000
        r3 == (r2 * Base) % 1000
        r4 == (r3 * Base) % 1000
    IN  RoundToFloat(<<(ms * Base) \div 1000, (r1 * Base) \div 1000,
                       (r2 * Base) \div 1000, (r3 * Base) \div 1000>>, r4 # 0)

\* chunk_size = 0.05 (line 376)
ChunkFloat == FromMs(ChunkMs)

\* SleepTime without the chunking: the whole remaining time at once.
SleepTimeWhole(r) == r

\* min(chunk_size, remaining) (line 384)
SleepTime(r) == Min(ChunkMs, r)

\* LoopContinues by the whole milliseconds alone.
LoopContinuesWholeMs(r, res) == r > 0

\* `while remaining > 0` (line 379): remaining is a float, positive also
\* when all whole milliseconds are used up and a rounding remainder is left.
LoopContinues(r, res) == r > 0 \/ res

\* CheckSignals of a check_interrupt that sees no interrupt.
CheckSignalsNever(i, t) == FALSE

\* Whether check_interrupt (lines 351-368) raises KeyboardInterrupt at time t.
CheckSignals(i, t) == i.kind = "check" /\ t >= i.at

\* interrupt_aware_sleep(duration) is called (lines 370-377): a duration
\* <= 0 returns at once.
SleepCalled(durations) ==
    /\ Ready
    /\ \E d \in durations : \E i \in Interrupts(d) :
           /\ op' = "sleep"
           /\ args' = [duration |-> d]
           /\ calls' = <<>>
           /\ stdout' = <<>>
           /\ now' = 0
           /\ intr' = i
           /\ residue' = FALSE
           /\ polls' = <<>>
           /\ chunks' = <<>>
           /\ events' = <<>>
           /\ IF d <= 0
              THEN /\ pc' = "done" /\ outcome' = Return(None)
                   /\ remaining' = 0 /\ remaining_float' = FZero
              ELSE /\ pc' = "check" /\ outcome' = NoOutcome
                   /\ remaining' = d /\ remaining_float' = FromMs(d)
           /\ UNCHANGED bridgeVars

SleepCall == SleepCalled(SleepDurations)

\* The sleeps of the cells the host runs between its other calls.
HostSleepDurations == {0, 2 * ChunkMs + 20}

HostSleepCall == SleepCalled(HostSleepDurations)

\* Line 381, at the head of every iteration: check_interrupt re-raises the
\* KeyboardInterrupt of the interrupt check (lines 360-365).
SleepCheck ==
    /\ op = "sleep" /\ pc = "check"
    /\ polls' = Append(polls, now)
    /\ IF CheckSignals(intr, now)
       THEN /\ pc' = "done"
            /\ outcome' = Raise("KeyboardInterrupt")
            /\ stdout' = Append(stdout, Line("stdout", "[INTERRUPT] KeyboardInterrupt detected"))
       ELSE /\ pc' = "chunk"
            /\ UNCHANGED <<outcome, stdout>>
    /\ UNCHANGED <<op, args, calls, events, bridgeVars, now, remaining, remaining_float,
                   residue, intr, chunks>>

\* Lines 384-392: one increment.  SIGINT arriving in it ends the underlying
\* sleep there (lines 388-390).  Otherwise the increment is waited out and
\* subtracted; the float subtraction of the last full chunk may leave a
\* positive remainder far below 1 ms (duration 0.5 does, 0.1 does not), and
\* then the loop runs once more.
SleepChunk ==
    /\ op = "sleep" /\ pc = "chunk"
    /\ LET sleep_time == SleepTime(remaining)
       IN IF intr.kind = "signal" /\ now <= intr.at /\ intr.at < now + sleep_time
          THEN /\ now' = intr.at
               /\ pc' = "done"
               /\ outcome' = Raise("KeyboardInterrupt")
               /\ stdout' = Append(stdout, Line("stdout", "[INTERRUPT] KeyboardInterrupt during sleep"))
               /\ UNCHANGED <<remaining, remaining_float, residue, chunks>>
          ELSE /\ now' = now + sleep_time
               /\ remaining' = remaining - sleep_time
               /\ remaining_float' = FSub(remaining_float, FMin(ChunkFloat, remaining_float))
               /\ chunks' = Append(chunks, sleep_time)
               /\ residue' = (remaining' = 0 /\ FPositive(remaining_float'))
               /\ IF LoopContinues(remaining', residue')
                  THEN pc' = "check" /\ UNCHANGED outcome
                  ELSE pc' = "done" /\ outcome' = Return(None)
               /\ UNCHANGED stdout
    /\ UNCHANGED <<op, args, calls, events, bridgeVars, intr, polls>>

\* ------------------------------------------------- the interrupt-aware input

\* The prompts of the enumerated calls; "" is the default (line 394).
Prompts == {StrV(""), StrV("> ")}

\* What the underlying input hands back: the line read.
InputLines == {StrV(""), StrV("a")}

\* What may interrupt a call of input: nothing; the interrupt check raising
\* from the call on; SIGINT delivered while the underlying input waits.
InputInterrupts == {NoInterrupt, [kind |-> "check", at |-> 0], [kind |-> "signal", at |-> 0]}

\* InputArg without the caller's prompt: the default one.
InputArgDefault(prompt) == StrV("")

\* The argument of `_original_input(prompt)` (line 400)
InputArg(prompt) == prompt

\* interrupt_aware_input(prompt) is called (line 394).  The function is
\* installed as builtins.input only when _original_input exists (line 411),
\* so the branch of lines 405-407 is never taken.
InputCall ==
    /\ Ready
    /\ \E prompt \in Prompts, i \in InputInterrupts :
           /\ Enter("input", [prompt |-> prompt], "check")
           /\ now' = 0
           /\ intr' = i
           /\ polls' = <<>>
           /\ UNCHANGED <<bridgeVars, remaining, remaining_float, residue, chunks>>

\* Line 396: check_interrupt, once, before the underlying input.
InputCheck ==
    /\ op = "input" /\ pc = "check"
    /\ polls' = Append(polls, now)
    /\ IF CheckSignals(intr, now)
       THEN /\ pc' = "done"
            /\ outcome' = Raise("KeyboardInterrupt")
            /\ stdout' = Append(stdout, Line("stdout", "[INTERRUPT] KeyboardInterrupt detected"))
       ELSE /\ pc' = "read"
            /\ UNCHANGED <<outcome, stdout>>
    /\ UNCHANGED <<op, args, calls, events, bridgeVars, now, remaining, remaining_float,
                   residue, intr, chunks>>

\* Lines 398-404: the underlying input is called with the prompt and what
\* it returns is returned; SIGINT while it waits is reported and raised
\* again; any other error of it (end of file) leaves as it is.
InputRead ==
    /\ op = "input" /\ pc = "read"
    /\ pc' = "done"
    /\ LET called == Append(events, Ev("input", InputArg(args.prompt)))
       IN IF intr.kind = "signal"
          THEN /\ events' = Append(called, Ev("input_raises", None))
               /\ outcome' = Raise("KeyboardInterrupt")
               /\ stdout' = Append(stdout, Line("stdout", "[INTERRUPT] KeyboardInterrupt during input"))
          ELSE /\ \/ \E line \in InputLines :
                        /\ events' = Append(called, Ev("input_returns", line))
                        /\ outcome' = Return(line)
                  \/ /\ events' = Append(called, Ev("input_raises", None))
                     /\ outcome' = Raise("EOFError")
               /\ UNCHANGED stdout
    /\ UNCHANGED <<op, args, calls, bridgeVars, sleepVars>>

\* ------------------------------------------------- check_interrupt, by hand

\* What the interrupt check of the runtime does when called: the attribute
\* pyodide_check_interrupt is absent; it returns; it raises
\* KeyboardInterrupt; it raises some other Exception.
Primitives == {"absent", "returns", "interrupts", "fails"}

\* check_interrupt (lines 351-368): KeyboardInterrupt is reported and raised
\* again, any other Exception is passed over.
CheckInterruptOutcome(primitive) ==
    IF primitive = "interrupts" THEN Raise("KeyboardInterrupt") ELSE Return(None)

CheckInterruptLines(primitive) ==
    IF primitive = "interrupts"
    THEN <<Line("stdout", "[INTERRUPT] KeyboardInterrupt detected")>>
    ELSE <<>>

\* builtins.check_interrupt() is called from user code (lines 418-423).
ManualCheck ==
    /\ Ready
    /\ \E primitive \in Primitives :
           /\ RunWhole("check_interrupt", [primitive |-> primitive],
                       CheckInterruptLines(primitive), CheckInterruptOutcome(primitive))
           /\ UNCHANGED <<bridgeVars, sleepVars>>

\* ---------------------------------------------------- the figure capture

\* The values of block the enumerated calls of show pass; None is the
\* default (line 206).
Blocks == {None, BoolV(TRUE), BoolV(FALSE)}

\* SVG(svg_content), the one object handed to display (line 222).
SvgObject == Obj("SVG")

\* The MIME bundle IPython's display publishes for it.
SvgData == Dict(<<Pair(StrV("image/svg+xml"), StrV("<svg>")), Pair(TextPlain, StrV("SVG"))>>)

\* CaughtByShow with a handler that catches nothing.
CaughtByShowNothing(e) == FALSE

\* `except Exception` (line 229): the errors of savefig, display and clf,
\* not KeyboardInterrupt.
CaughtByShow(e) == e \in {"RenderError", "DisplayError", "ClearError"}

AfterRaiseInShow(e) == IF CaughtByShow(e) THEN "except" ELSE "done"

\* The arguments of the call of _original_show (line 232): block, when it
\* is not None.
ShowArgs(block) == IF block # None THEN List(<<block>>) ELSE List(<<>>)

\* ShowNext of an adapter that does not clear the figure.
ShowNextNoClear(p) == IF p = "savefig" THEN "display" ELSE "original"

\* The statement after p in the try of lines 211-228: render, display,
\* clear; after the try, the call of the original show.
ShowNext(p) ==
    IF p = "savefig" THEN "display" ELSE IF p = "display" THEN "clf" ELSE "original"

\* _capture_matplotlib_show(block) is called; plt.get_fignums() says
\* whether a figure is open (lines 206-208).
ShowCall ==
    /\ Ready
    /\ \E block \in Blocks, figure \in BOOLEAN :
           /\ Enter("show", [block |-> block, figure |-> figure],
                    IF figure THEN "savefig" ELSE "original")
           /\ count0' = execution_count
           /\ UNCHANGED <<hook_js_callback, pub_js_callback, js_clear_callback,
                          execution_count, present_calls, fmt, sleepVars>>

\* One step inside the try of lines 211-228 ended by raising e.
ShowRaised(e) ==
    /\ pc' = AfterRaiseInShow(e)
    /\ outcome' = IF CaughtByShow(e) THEN outcome ELSE Raise(e)

\* Lines 212-220: the figure is rendered as SVG into the buffer.
ShowSavefig ==
    /\ op = "show" /\ pc = "savefig"
    /\ \E end \in SinkEnds :
          /\ events' = Append(events, Ev("savefig_" \o end, None))
          /\ IF end = "returns"
             THEN pc' = ShowNext(pc) /\ UNCHANGED outcome
             ELSE ShowRaised("RenderError")
    /\ UNCHANGED <<op, args, calls, stdout, bridgeVars, sleepVars>>

\* Lines 223-225: display(SVG(svg_content)).  IPython formats the object
\* and hands the bundle to the shell's publisher (line 195), whose publish
\* invokes the display sink, when one is registered; an error of the sink or
\* of the formatting leaves display.
ShowDisplay ==
    /\ op = "show" /\ pc = "display"
    /\ \E end \in SinkEnds :
          /\ events' = Append(events, Ev("display_" \o end, SvgObject))
          /\ IF end = "returns"
             THEN pc' = ShowNext(pc) /\ UNCHANGED outcome
             ELSE ShowRaised("DisplayError")
    /\ calls' = IF PublishEmits(pub_js_callback, SvgData)
                THEN Append(calls, SinkCall("display",
                                PublishArgs(SvgData, EmptyDict, None, BoolV(FALSE))))
                ELSE calls
    /\ UNCHANGED <<op, args, stdout, bridgeVars, sleepVars>>

\* Line 227: plt.clf() clears the figure.
ShowClf ==
    /\ op = "show" /\ pc = "clf"
    /\ \E end \in SinkEnds :
          /\ events' = Append(events, Ev("clf_" \o end, None))
          /\ IF end = "returns"
             THEN pc' = ShowNext(pc) /\ UNCHANGED outcome
             ELSE ShowRaised("ClearError")
    /\ UNCHANGED <<op, args, calls, stdout, bridgeVars, sleepVars>>

\* Lines 229-230: the handler prints its line.
ShowExcept ==
    /\ op = "show" /\ pc = "except"
    /\ stdout' = Append(stdout, Line("stdout", "Error capturing plot"))
    /\ pc' = "original"
    /\ UNCHANGED <<op, args, calls, outcome, events, bridgeVars, sleepVars>>

\* Line 232: the original show is called, with block when it is not None,
\* and what it returns is returned; nothing catches what it raises.
ShowOriginal ==
    /\ op = "show" /\ pc = "original"
    /\ pc' = "done"
    /\ \E end \in SinkEnds :
          /\ events' = Append(events, Ev("original_show_" \o end, ShowArgs(args.block)))
          /\ outcome' = IF end = "returns" THEN Return(None) ELSE Raise("ShowError")
    /\ UNCHANGED <<op, args, calls, stdout, bridgeVars, sleepVars>>

\* ------------------------------------------------------------------ SIGINT

\* The positions inside a try whose handler is `except Exception`: lines
\* 139-149 of the hook, lines 211-228 of the figure capture.
InTry(o, p) ==
    \/ o = "hook" /\ p \in {"format", "emit"}
    \/ o = "show" /\ p \in {"savefig", "display", "clf"}

\* Whether the handler around that position catches e.
CaughtAt(o, e) == IF o = "hook" THEN CaughtByHook(e) ELSE CaughtByShow(e)

\* signal_handler (lines 336-342): SIGINT arrives while an operation of the
\* bridge is in flight; the handler prints its line and raises
\* KeyboardInterrupt there.  Inside a try the handler around it is asked;
\* anywhere else nothing is.
SignalInterrupt ==
    /\ op \in {"hook", "publish", "clear_output", "show"}
    /\ pc \notin {"idle", "done"}
    /\ IF InTry(op, pc) /\ CaughtAt(op, "KeyboardInterrupt")
       THEN /\ pc' = "except"
            /\ UNCHANGED outcome
       ELSE /\ pc' = "done"
            /\ outcome' = Raise("KeyboardInterrupt")
    /\ stdout' = Append(stdout, Line("stdout", "[INTERRUPT] Signal"))
    /\ UNCHANGED <<op, args, calls, events, bridgeVars, sleepVars>>

\* ----------------------------------------------------------- specifications

\* The caller takes the outcome of the operation that ended (its result or
\* its exception); the next operation may be called.
Finish ==
    /\ pc = "done"
    /\ pc' = "idle"
    /\ op' = "none"
    /\ args' = <<>>
    /\ calls' = <<>>
    /\ stdout' = <<>>
    /\ outcome' = NoOutcome
    /\ fmt' = NoFormat
    /\ count0' = execution_count
    /\ now' = 0
    /\ remaining' = 0
    /\ remaining_float' = FZero
    /\ residue' = FALSE
    /\ intr' = NoInterrupt
    /\ polls' = <<>>
    /\ chunks' = <<>>
    /\ events' = <<>>
    /\ UNCHANGED <<hook_js_callback, pub_js_callback, js_clear_callback, execution_count,
                   present_calls>>

\* The serializers and format_exception, called on enumerated inputs.
NextPure ==
    \/ Finish
    \/ CallPubMakeSerializable
    \/ CallHookMakeSerializable
    \/ FormatExceptionCall
    \/ FormatExceptionPrimary
    \/ FormatExceptionFallback

SpecPure == Init /\ [][NextPure]_vars

\* The bridge under the host: sink assignments, hook calls, publish and
\* clear_output calls, calls of show, short sleeps, input and
\* check_interrupt, and SIGINT.
Next ==
    \/ Finish
    \/ SetHookCallback
    \/ SetPubCallback
    \/ SetClearCallback
    \/ HookCall
    \/ HookFormat
    \/ HookEmit
    \/ HookExcept
    \/ HookReturn
    \/ PublishCall
    \/ PublishBody
    \/ ClearOutputCall
    \/ ClearOutputBody
    \/ SignalInterrupt
    \/ HookCallInterrupted
    \/ ShowCall
    \/ ShowSavefig
    \/ ShowDisplay
    \/ ShowClf
    \/ ShowExcept
    \/ ShowOriginal
    \/ HostSleepCall
    \/ SleepCheck
    \/ SleepChunk
    \/ InputCall
    \/ InputCheck
    \/ InputRead
    \/ ManualCheck

Spec == Init /\ [][Next]_vars

\* The wrapped sleep and the wrapped input, called with enumerated
\* durations, prompts and interrupts, and check_interrupt.
NextSleep ==
    \/ Finish
    \/ SleepCall
    \/ SleepCheck
    \/ SleepChunk
    \/ InputCall
    \/ InputCheck
    \/ InputRead
    \/ ManualCheck

SpecSleep == Init /\ [][NextSleep]_vars

\* ------------------------------------------------ claims on the serializers

SerializerDone == op \in {"pub_serialize", "hook_serialize"} /\ pc = "done"

\* C4: for every input value, each of the two serializers returns (does not
\* raise) a value that a standard JSON encoder encodes without error.
C4_SerializeAlwaysEncodable ==
    SerializerDone => outcome.kind = "return" /\ JsonOk(outcome.val)

\* The indices of mapping m whose key has the string coercion s.
IndicesCoercedTo(m, s) == {i \in 1..Len(m.xs) : Str(KeyOf(m.xs[i])) = s}

\* The last index of mapping m whose key has the string coercion s.
LastCoercedTo(m, s) ==
    CHOOSE i \in IndicesCoercedTo(m, s) : \A j \in IndicesCoercedTo(m, s) : j <= i

\* C5 as stated: the serialized mapping has one entry for every key of the
\* mapping (keys 1 and "1" both kept), every JSON-safe value is unchanged
\* under its coerced key, and a value is replaced by its string only if it is
\* not JSON-encodable.
C5_EveryKeyPreserved ==
    (SerializerDone /\ IsDict(args.obj)) =>
        /\ IsDict(outcome.val)
        /\ Len(outcome.val.xs) = Len(args.obj.xs)
        /\ \A i \in 1..Len(args.obj.xs) :
              LET key == KeyOf(args.obj.xs[i])
                  val == ValOf(args.obj.xs[i])
              IN /\ Str(key) \in DictKeys(outcome.val)
                 /\ JsonOk(val) => DictGet(outcome.val, Str(key)) = val
                 /\ DictGet(outcome.val, Str(key)) # val => ~JsonOk(val)

\* C5 amended: the serialized mapping's keys are exactly the string coercions
\* of the mapping's keys, each once; under each of them stands the value of
\* the last key (in the mapping's order) with that coercion, unchanged when
\* it is JSON-encodable and replaced by its string representation when it is
\* not; so a key whose coercion no other key shares keeps its value.
C5_KeysCoercedLastWins ==
    (SerializerDone /\ IsDict(args.obj)) =>
        /\ IsDict(outcome.val)
        /\ DictKeys(outcome.val) = {Str(key) : key \in DictKeys(args.obj)}
        /\ Len(outcome.val.xs) = Cardinality(DictKeys(outcome.val))
        /\ \A s \in DictKeys(outcome.val) :
              LET val == ValOf(args.obj.xs[LastCoercedTo(args.obj, s)])
              IN DictGet(outcome.val, s) = IF JsonOk(val) THEN val ELSE Str(val)

\* C5's case: a mapping holding the keys 1 and "1" has been serialized into
\* a single entry "1".
C5_Witness ==
    /\ SerializerDone /\ IsDict(args.obj)
    /\ {IntV("1"), StrV("1")} \subseteq DictKeys(args.obj)
    /\ Len(outcome.val.xs) < Len(args.obj.xs)
    /\ \E i \in 1..Len(args.obj.xs) : ~JsonOk(ValOf(args.obj.xs[i]))

\* C9: format_exception never raises and returns a non-empty string, for
\* every triple, also when the primary rendering fails.
C9_FormatExceptionTotal ==
    (op = "format_exception" /\ pc = "done") =>
        /\ outcome.kind = "return"
        /\ outcome.val.k = "str"
        /\ outcome.val.a # ""

\* --------------------------------------------------- claims on the bridge

\* A hook call with a present value and a result sink has ended, and not by
\* SIGINT.
HookEnded ==
    /\ op = "hook" /\ pc = "done"
    /\ IsPresent(args.result)
    /\ hook_js_callback = "sink"
    /\ outcome.exc # "KeyboardInterrupt"

\* C1: a hook call with a present value and a registered result sink
\* increases execution_count by exactly 1 and invokes the result sink exactly
\* once, with the new count as first argument, whatever the formatting gave
\* (a non-empty mapping, an empty mapping, an error).
C1_SinkExactlyOnce ==
    HookEnded =>
        /\ execution_count = count0 + 1
        /\ Len(calls) = 1
        /\ calls[1].sink = "result"
        /\ calls[1].args[1] = execution_count

\* C2: a hook call with an absent value, unless SIGINT ends it, invokes no
\* sink, prints nothing, leaves execution_count unchanged and returns the
\* absent value.
C2_AbsentResultNoEffect ==
    (op = "hook" /\ args.result = None /\ outcome.exc # "KeyboardInterrupt") =>
        /\ pc = "done"
        /\ calls = <<>>
        /\ stdout = <<>>
        /\ execution_count = count0
        /\ outcome = Return(None)

\* C2's case: with a result sink registered and results already counted, the
\* hook has been called with None.
C2_Witness ==
    /\ op = "hook" /\ pc = "done"
    /\ args.result = None
    /\ outcome = Return(None)
    /\ hook_js_callback = "sink"
    /\ execution_count > 0

\* C3: when the formatting raised in a hook call with a present value and a
\* result sink, the sink was invoked exactly once, with the counter, a
\* payload whose only key is text/plain and empty metadata; the formatting
\* error does not leave the hook: the hook returns the original value, or
\* ends with the error the sink itself raised.
C3_FormatErrorFallsBack ==
    (HookEnded /\ fmt.raised) =>
        /\ Len(calls) = 1
        /\ calls[1].sink = "result"
        /\ calls[1].args[1] = execution_count
        /\ IsDict(calls[1].args[2])
        /\ DictKeys(calls[1].args[2]) = {TextPlain}
        /\ DictGet(calls[1].args[2], TextPlain) = Str(args.result)
        /\ calls[1].args[3] = EmptyDict
        /\ outcome \in {Return(args.result), Raise("SinkError")}

\* C3's case: the formatting raised, the fallback went to the sink, and the
\* hook returned the original value.
C3_Witness ==
    /\ HookEnded /\ fmt.raised
    /\ outcome = Return(args.result)
    /\ Len(calls) = 1
    /\ args.result = Obj("o")

PublishEnded == op = "publish" /\ pc = "done"

\* C6: publish invokes no sink when no display sink is registered or data is
\* empty; otherwise it invokes the display sink exactly once with
\* (serialized data, serialized metadata, serialized transient, update),
\* update as the caller gave it and an absent metadata or transient as an
\* empty mapping.  (A call SIGINT ends before the invocation makes none.)
C6_PublishOnceInOrder ==
    PublishEnded =>
        IF pub_js_callback # "sink" \/ ~Truthy(args.data)
        THEN calls = <<>>
        ELSE IF calls = <<>>
        THEN outcome.exc = "KeyboardInterrupt"
        ELSE /\ Len(calls) = 1
             /\ calls[1].sink = "display"
             /\ Len(calls[1].args) = 4
             /\ calls[1].args[1] = PubMakeSerializable(args.data)
             /\ calls[1].args[2] = PubMakeSerializable(args.metadata)
             /\ calls[1].args[3] = PubMakeSerializable(args.transient)
             /\ calls[1].args[4] = args.update
             /\ args.metadata = None => calls[1].args[2] = EmptyDict
             /\ args.transient = None => calls[1].args[3] = EmptyDict

\* C6's case: publish with a sink, non-empty data, a metadata mapping, no
\* transient and update=True has invoked the sink.
C6_Witness ==
    /\ PublishEnded
    /\ pub_js_callback = "sink"
    /\ Truthy(args.data)
    /\ Truthy(args.metadata)
    /\ args.transient = None
    /\ args.update = BoolV(TRUE)
    /\ Len(calls) = 1
    /\ outcome = Return(None)

\* clear_output(wait=True) has ended, and not by SIGINT.
ClearTrueEnded ==
    /\ op = "clear_output" /\ pc = "done"
    /\ args.wait = BoolV(TRUE)
    /\ outcome.exc # "KeyboardInterrupt"

\* What clear_output(True) did, with `line` the text of the sentinel line.
ClearOutputDid(line) ==
    IF js_clear_callback = "sink"
    THEN calls = <<SinkCall("clear", <<BoolV(TRUE)>>)>> /\ stdout = <<>>
    ELSE calls = <<>> /\ stdout = <<Line("stdout", line)>>

C10_AtMostOncePerEvent ==
    op \in {"hook", "publish", "clear_output"} => Len(calls) <= 1

\* ------------------------------------------------ claims on the wrapped sleep

\* A sleep of duration d > 0 has ended whose interrupt check signalled from
\* time t on, 0 <= t < d.
SleepEndedInterrupted ==
    /\ op = "sleep" /\ pc = "done"
    /\ intr.kind = "check"
    /\ intr.at < args.duration

\* The end of the waiting increment in progress at time t of a sleep of d ms.
IncrementEnd(t, d) == Min(((t \div ChunkMs) + 1) * ChunkMs, d)

\* The times at or after t at which the sleep polled the interrupt check.
PollsFrom(t) == {polls[i] : i \in {j \in 1..Len(polls) : polls[j] >= t}}

\* C8 as stated: for every d and every t with 0 <= t < d the sleep aborts with
\* KeyboardInterrupt no later than the end of the increment in progress at
\* t, at most one 50 ms increment after t.
C8_AlwaysAbortsWithinIncrement ==
    SleepEndedInterrupted =>
        /\ outcome = Raise("KeyboardInterrupt")
        /\ now <= IncrementEnd(intr.at, args.duration)
        /\ now <= intr.at + ChunkMs

\* C8 amended: the sleep ends no later than the end of the increment in
\* progress at t, at most one 50 ms increment after t; it aborts with
\* KeyboardInterrupt at the first poll at or after t, and when no poll
\* follows t (the interrupt came during the last increment) it returns
\* normally at d.  A sleep of 500 ms interrupted at 120 ms aborts at 150 ms.
C8_EndsWithinIncrement ==
    SleepEndedInterrupted =>
        /\ now <= IncrementEnd(intr.at, args.duration)
        /\ now <= intr.at + ChunkMs
        /\ IF PollsFrom(intr.at) # {}
           THEN /\ outcome = Raise("KeyboardInterrupt")
                /\ PollsFrom(intr.at) = {now}
           ELSE /\ outcome = Return(None)
                /\ now = args.duration
                /\ args.duration - intr.at < ChunkMs
        /\ (args.duration = ExampleMs /\ intr.at = 120) =>
              (now = 150 /\ outcome = Raise("KeyboardInterrupt"))

\* C8's case: the sleep of 500 ms whose interrupt arrived at 120 ms has
\* aborted at 150 ms, after four polls and three increments.
C8_Witness ==
    /\ SleepEndedInterrupted
    /\ args.duration = ExampleMs
    /\ intr.at = 120
    /\ now = 150
    /\ outcome = Raise("KeyboardInterrupt")
    /\ Len(polls) = 4
    /\ chunks = <<ChunkMs, ChunkMs, ChunkMs>>

\* Some sink invocation of the operation in flight raised.
SinkRaised == \E i \in 1..Len(events) : events[i].ev = "sink_raises"

\* C11: an error raised by a result, display or clear sink leaves the hook,
\* publish or clear_output as it is: once a sink invocation has raised, the
\* operation has ended with that error, and it made no further invocation
\* (no fallback delivery).
C11_SinkErrorPropagates ==
    (op \in {"hook", "publish", "clear_output"} /\ SinkRaised)
        => /\ pc = "done"
           /\ outcome = Raise("SinkError")
           /\ Len(calls) = 1

\* The lines signal_handler (line 338), check_interrupt (line 362), the sleep
\* (line 389) and the input (line 402) print when they raise
\* KeyboardInterrupt.
InterruptLines ==
    { Line("stdout", "[INTERRUPT] Signal"),
      Line("stdout", "[INTERRUPT] KeyboardInterrupt detected"),
      Line("stdout", "[INTERRUPT] KeyboardInterrupt during sleep"),
      Line("stdout", "[INTERRUPT] KeyboardInterrupt during input") }

\* KeyboardInterrupt was raised in the operation in flight.
Interrupted == \E i \in 1..Len(stdout) : stdout[i] \in InterruptLines

\* C12: a KeyboardInterrupt raised by the signal handler or by the interrupt
\* check inside any operation (hook, publish, clear_output, figure capture,
\* wrapped sleep, wrapped input, check_interrupt) leaves that operation at
\* once: the operation has ended with KeyboardInterrupt, no handler of the
\* module took it and nothing was delivered after it.
C12_InterruptPropagates ==
    Interrupted => (pc = "done" /\ outcome = Raise("KeyboardInterrupt"))

\* C12's case: with a result sink registered, SIGINT arrived while the hook
\* was formatting, inside its try, and the hook ended with
\* KeyboardInterrupt, the sink never invoked.
C12_Witness ==
    /\ op = "hook" /\ pc = "done"
    /\ Interrupted
    /\ hook_js_callback = "sink"
    /\ execution_count = count0 + 1
    /\ fmt = NoFormat
    /\ calls = <<>>
    /\ outcome = Raise("KeyboardInterrupt")

\* The host has registered no sink: the two js_callback are None and
\* js_clear_callback is not set, or None.
NoSink ==
    /\ hook_js_callback = "none"
    /\ pub_js_callback = "none"
    /\ js_clear_callback \in {"unset", "none"}

\* C13: with no sink registered, every hook call (the formatting may raise),
\* publish call and clear_output call invokes no callback of the host and,
\* unless an interrupt ends it, returns: it raises nothing into the host.
C13_NoSinkNoEffect ==
    (NoSink /\ op \in {"hook", "publish", "clear_output"}) =>
        /\ calls = <<>>
        /\ events = <<>>
        /\ (pc = "done" /\ ~Interrupted) => outcome.kind = "return"

\* C13's case: in the initial registration, after earlier calls, a hook call
\* whose formatting raised has returned its value.
C13_Witness ==
    /\ NoSink /\ js_clear_callback = "unset"
    /\ op = "hook" /\ pc = "done"
    /\ fmt.raised
    /\ execution_count > 1
    /\ outcome = Return(args.result)

\* C14 as stated: at every moment execution_count equals the number of hook
\* calls made so far with a present value, whether or not an interrupt cut a
\* call short.
C14_CountsEveryPresentCall == execution_count = present_calls

\* A step in which the hook is called with a present value and the call gets
\* as far as line 136.
PresentCallStep ==
    /\ pc = "idle" /\ op' = "hook"
    /\ args'.result # None
    /\ ~(pc' = "done" /\ outcome' = Raise("KeyboardInterrupt"))

\* C14: execution_count never decreases; a step changes it exactly when the
\* hook is called with a present value and reaches line 136, and then by 1,
\* whatever becomes of the call afterwards (no sink, a formatting error, a
\* sink error, an interrupt); so it never exceeds the number of hook calls
\* made with a present value, and falls short of it only by the calls an
\* interrupt ended before line 136.
C14_CountsPresentCallsReached ==
    /\ [](execution_count <= present_calls)
    /\ [][/\ execution_count' >= execution_count
          /\ PresentCallStep => execution_count' = execution_count + 1
          /\ ~PresentCallStep => execution_count' = execution_count]_vars

\* C14's case: a hook call with a present value was cut short by SIGINT
\* during the formatting, after earlier calls, and is counted.
C14_Witness ==
    /\ op = "hook" /\ pc = "done"
    /\ outcome = Raise("KeyboardInterrupt")
    /\ fmt = NoFormat
    /\ count0 > 0
    /\ execution_count = count0 + 1
    /\ execution_count = present_calls

\* C15: the wrapped input calls check_interrupt exactly once, before the
\* underlying input; when the check signals, the underlying input is never
\* called and the call ends with KeyboardInterrupt; otherwise the underlying
\* input is called exactly once, with the caller's prompt, and what it
\* returns is returned unchanged (what it raises is raised).
C15_InputCheckedOnceThenRead ==
    op = "input" =>
        /\ pc = "check" => (polls = <<>> /\ events = <<>>)
        /\ pc # "check" => Len(polls) = 1
        /\ pc = "read" => (events = <<>> /\ ~CheckSignals(intr, 0))
        /\ (pc = "done" /\ CheckSignals(intr, 0)) =>
               (events = <<>> /\ outcome = Raise("KeyboardInterrupt"))
        /\ (pc = "done" /\ ~CheckSignals(intr, 0)) =>
               /\ Len(events) = 2
               /\ events[1] = Ev("input", args.prompt)
               /\ events[2].ev \in {"input_returns", "input_raises"}
               /\ events[2].ev = "input_returns" => outcome = Return(events[2].arg)
               /\ events[2].ev = "input_raises" => outcome.kind = "raise"

\* C15's case: input("> ") was called with no interrupt pending, and the
\* line the underlying input read has been returned.
C15_Witness ==
    /\ op = "input" /\ pc = "done"
    /\ args.prompt = StrV("> ")
    /\ intr = NoInterrupt
    /\ Len(polls) = 1
    /\ outcome = Return(StrV("a"))

\* A wrapped sleep of a positive duration has returned, no interrupt in its
\* run.
SleepReturned ==
    /\ op = "sleep" /\ pc = "done"
    /\ args.duration > 0
    /\ intr = NoInterrupt

\* ceil(d / ChunkMs)
CeilChunks(d) == (d + ChunkMs - 1) \div ChunkMs

RECURSIVE SumTo(_, _)
\* The sum of the first n entries of seq.
SumTo(seq, n) == IF n = 0 THEN 0 ELSE SumTo(seq, n - 1) + seq[n]

\* The increments are at most ChunkMs long and sum to the duration, and
\* check_interrupt was called exactly once as each of them began, never
\* after the last.
IncrementsPolled ==
    /\ \A i \in 1..Len(chunks) : 0 <= chunks[i] /\ chunks[i] <= ChunkMs
    /\ SumTo(chunks, Len(chunks)) = args.duration
    /\ Len(polls) = Len(chunks)
    /\ \A i \in 1..Len(polls) : polls[i] = SumTo(chunks, i - 1)

\* C16 as stated: a wrapped sleep of d > 0 ms without interrupt ends after
\* exactly ceil(d / 50) increments, each at most 50 ms, summing to d, with
\* one poll of the interrupt check immediately before each increment.
C16_ExactlyCeilIncrements ==
    SleepReturned =>
        /\ Len(chunks) = CeilChunks(args.duration)
        /\ IncrementsPolled

\* C16: a wrapped sleep of d > 0 ms without interrupt ends when the float
\* remaining is no longer positive: after ceil(d / 50) increments, and one
\* more, of no whole millisecond, when the float subtraction of the last
\* chunk left a positive remainder; each increment is at most 50 ms, they
\* sum to d, and the interrupt check is polled exactly once immediately
\* before each increment, never after the last.
C16_CeilIncrementsOrOneMore ==
    SleepReturned =>
        /\ outcome = Return(None)
        /\ ~FPositive(remaining_float)
        /\ Len(chunks) = CeilChunks(args.duration)
                           + (IF chunks[Len(chunks)] = 0 THEN 1 ELSE 0)
        /\ IncrementsPolled

\* C16's case: the sleep of the example duration has returned, after more
\* increments than the duration has whole chunks.
C16_Witness ==
    /\ SleepReturned
    /\ args.duration = ExampleMs
    /\ Len(chunks) > ExampleMs \div ChunkMs
    /\ Len(polls) = Len(chunks)

\* The interrupt was pending when the operation was called.
PendingAtCall == intr = [kind |-> "check", at |-> 0]

\* C17 as stated: every call of the wrapped sleep, whatever the duration
\* (zero and negative ones too), and every call of the wrapped input polls
\* the interrupt check at least once, so a call made while an interrupt is
\* pending never returns normally.
C17_EveryCallPolls ==
    (op \in {"sleep", "input"} /\ pc = "done") =>
        /\ Len(polls) >= 1
        /\ PendingAtCall => outcome = Raise("KeyboardInterrupt")

\* C17: every call of the wrapped sleep with a positive duration and every
\* call of the wrapped input polls the interrupt check at least once, first
\* of all, so that such a call made while an interrupt is pending ends with
\* KeyboardInterrupt, having waited for nothing and read nothing; a sleep of
\* zero or negative duration returns at once without any poll, also while an
\* interrupt is pending.
C17_PositiveSleepAndInputPoll ==
    (op \in {"sleep", "input"} /\ pc = "done") =>
        IF op = "sleep" /\ args.duration <= 0
        THEN polls = <<>> /\ outcome = Return(None)
        ELSE /\ Len(polls) >= 1
             /\ polls[1] = 0
             /\ PendingAtCall =>
                   /\ outcome = Raise("KeyboardInterrupt")
                   /\ polls = <<0>>
                   /\ chunks = <<>>
                   /\ events = <<>>

\* C17's case: the example sleep was called while an interrupt was pending
\* and has ended with KeyboardInterrupt.
C17_Witness ==
    /\ op = "sleep" /\ pc = "done"
    /\ args.duration = ExampleMs
    /\ PendingAtCall
    /\ outcome = Raise("KeyboardInterrupt")

\* C18: for every value exposing to_dict, serializing the value gives what
\* serializing its to_dict() result gives, and the publisher's serializer
\* and the hook's serializer give the same.
C18_ToDictLikeItsDict ==
    (SerializerDone /\ HasToDict(args.obj)) =>
        /\ op = "pub_serialize" =>
               outcome = Return(PubMakeSerializable(CallToDict(args.obj)))
        /\ op = "hook_serialize" =>
               outcome = Return(HookMakeSerializable(CallToDict(args.obj)))
        /\ PubMakeSerializable(args.obj) = HookMakeSerializable(args.obj)

\* ------------------------------------------------ claims on the figure capture

\* A call of show has ended, and not by an interrupt.
ShowEnded == op = "show" /\ pc = "done" /\ ~Interrupted

\* The names of the events, in order.
EventNames == [i \in 1..Len(events) |-> events[i].ev]

\* How many events have the name n.
EventCount(n) == Cardinality({i \in 1..Len(events) : events[i].ev = n})

\* The original show was called as the last thing, once, with block as
\* keyword argument when block was given and without argument otherwise, and
\* the call ended as the original show did.
OriginalShowLast ==
    /\ EventCount("original_show_returns") + EventCount("original_show_raises") = 1
    /\ LET last == events[Len(events)]
       IN  /\ last.ev \in {"original_show_returns", "original_show_raises"}
           /\ last.arg = (IF args.block = None THEN List(<<>>) ELSE List(<<args.block>>))
           /\ last.ev = "original_show_returns" => outcome = Return(None)
           /\ last.ev = "original_show_raises" => outcome = Raise("ShowError")

\* Rendering, publishing or clearing raised an ordinary exception.
CaptureFailed ==
    \E n \in {"savefig_raises", "display_raises", "clf_raises"} : EventCount(n) > 0

\* C19: when a figure is open and rendering or publishing it raises an
\* ordinary exception, the adapter catches it, prints its diagnostic, still
\* calls the original show exactly once (with block only when the caller
\* gave it) and returns as the original show does; the figure is not
\* cleared, and nothing more of the capture is done after the error.
C19_CaptureFailureIsolated ==
    (ShowEnded /\ args.figure
        /\ (EventCount("savefig_raises") > 0 \/ EventCount("display_raises") > 0)) =>
        /\ stdout = <<Line("stdout", "Error capturing plot")>>
        /\ EventCount("clf_returns") = 0 /\ EventCount("clf_raises") = 0
        /\ OriginalShowLast
        /\ EventNames \in
              { <<"savefig_raises", e>> : e \in {"original_show_returns", "original_show_raises"} }
              \cup { <<"savefig_returns", "display_raises", e>> :
                        e \in {"original_show_returns", "original_show_raises"} }

\* C19's case: show(block=True) with a figure open and a display sink
\* registered; publishing raised, and the original show was called with
\* block and returned.
C19_Witness ==
    /\ ShowEnded /\ args.figure
    /\ args.block = BoolV(TRUE)
    /\ pub_js_callback = "sink"
    /\ EventNames = <<"savefig_returns", "display_raises", "original_show_returns">>
    /\ Len(calls) = 1
    /\ outcome = Return(None)

\* C20: with no figure open nothing is rendered, published or cleared and
\* only the original show is called; with a figure open and the rendering
\* successful exactly one object, the SVG, is passed to display, the figure
\* is cleared only after display has returned, and the original show is
\* called only after the clear (or after the diagnostic, when display or the
\* clear raised).
C20_CaptureOrdered ==
    ShowEnded =>
        /\ OriginalShowLast
        /\ ~args.figure =>
              (Len(events) = 1 /\ calls = <<>> /\ stdout = <<>>)
        /\ (args.figure /\ EventCount("savefig_returns") > 0) =>
              /\ EventCount("display_returns") + EventCount("display_raises") = 1
              /\ events[2].ev \in {"display_returns", "display_raises"}
              /\ events[2].arg = SvgObject
              /\ Len(calls) <= 1
              /\ ~CaptureFailed =>
                    /\ Len(events) = 4
                    /\ SubSeq(EventNames, 1, 3) = <<"savefig_returns", "display_returns", "clf_returns">>
                    /\ stdout = <<>>
              /\ \A i \in 1..Len(events) :
                    events[i].ev \in {"clf_returns", "clf_raises"} =>
                        (i = 3 /\ events[2].ev = "display_returns")

\* C20's case: show() with a figure open and a display sink registered has
\* rendered, published, cleared and called the original show, in this order.
C20_Witness ==
    /\ ShowEnded /\ args.figure
    /\ args.block = None
    /\ pub_js_callback = "sink"
    /\ EventNames = <<"savefig_returns", "display_returns", "clf_returns", "original_show_returns">>
    /\ Len(calls) = 1
    /\ calls[1].sink = "display"
    /\ outcome = Return(None)

====
